---- MODULE Spec2Model ----
(***************************************************************************)
(* Model of the Shop Assistant chat service:                               *)
(*   app/services/chatbot_service.py  (intent rules, product resolution)   *)
(*   app/services/product_service.py  (catalog cache, price, filters)      *)
(*   app/utils/groq_client.py         (generative fallback with retries)   *)
(*                                                                         *)
(* A Python str is modelled as a sequence of one-character strings; the    *)
(* fixed literals of the replies are kept as single atoms of such a        *)
(* sequence.  Prices are integer cents, ratings integer tenths, discounts  *)
(* whole percents.                                                         *)
(***************************************************************************)
EXTENDS Integers, Sequences, FiniteSets, TLC

VARIABLES
    pc,              \* position of the current generate_chat_response call
    message,         \* its argument
    products,        \* its local `products`
    name_matches,    \* its local `name_matches` (the resolver's result)
    answered,        \* the products the single-product branch answered about
    prompt,          \* the prompt handed to query_groq (None when none)
    attempt,         \* query_groq: HTTP attempts made so far
    outcome,         \* query_groq: what its latest HTTP attempt met with
    ai_resp,         \* what query_groq returned (None before it returns)
    reply,           \* what generate_chat_response returned (None before)
    filtered,        \* its local `filtered` (line 190)
    listed,          \* the products a list reply shows
    branch,          \* which return statement (or query_groq call) was reached
    fetch_calls,     \* fetch_products calls made by the current request
    groq_calls,      \* query_groq calls made by the current request
    products_cache,  \* product_service._products_cache
    nw_in,           \* _normalize_word: the word under study
    nw_once,         \* _normalize_word(nw_in)
    nw_twice,        \* _normalize_word(_normalize_word(nw_in))
    ap_in,           \* compute_actual_price: <<price, discount_pct>>
    ap_out,          \* compute_actual_price: the value returned
    calls            \* fetch_products: the calls of concurrent handlers

vars == <<pc, message, products, name_matches, answered, prompt, attempt,
          outcome, ai_resp, reply, filtered, listed, branch, fetch_calls, groq_calls, products_cache,
          nw_in, nw_once, nw_twice, ap_in, ap_out, calls>>

reqVars == <<pc, message, products, name_matches, answered, prompt,
             attempt, outcome, ai_resp, reply, filtered, listed, branch, fetch_calls, groq_calls,
             products_cache>>
nwVars == <<nw_in, nw_once, nw_twice>>
apVars == <<ap_in, ap_out>>
fpVars == <<calls>>

\* Python's None, where a str is expected
None == <<"None">>

\* An Optional number is <<>> for None and <<n>> for the number n.

(***************************************************************************)
(* str helpers                                                             *)
(***************************************************************************)

\* str.lower() and str.upper() on single characters
LowerTable ==
    [A |-> "a", B |-> "b", C |-> "c", D |-> "d", E |-> "e", F |-> "f",
     G |-> "g", H |-> "h", I |-> "i", J |-> "j", K |-> "k", L |-> "l",
     M |-> "m", N |-> "n", O |-> "o", P |-> "p", Q |-> "q", R |-> "r",
     S |-> "s", T |-> "t", U |-> "u", V |-> "v", W |-> "w", X |-> "x",
     Y |-> "y", Z |-> "z"]

LowerChar(c) == IF c \in DOMAIN LowerTable THEN LowerTable[c] ELSE c

UpperChar(c) ==
    IF \E u \in DOMAIN LowerTable : LowerTable[u] = c
    THEN CHOOSE u \in DOMAIN LowerTable : LowerTable[u] = c
    ELSE c

Lower(s) == [i \in 1..Len(s) |-> LowerChar(s[i])]

IsSpace(c) == c = " "

\* index of the first / last non-space character (0 when there is none)
FirstNonSpace(s) ==
    IF \E i \in 1..Len(s) : ~IsSpace(s[i])
    THEN CHOOSE i \in 1..Len(s) :
            /\ ~IsSpace(s[i])
            /\ \A j \in 1..(i - 1) : IsSpace(s[j])
    ELSE 0

LastNonSpace(s) ==
    IF \E i \in 1..Len(s) : ~IsSpace(s[i])
    THEN CHOOSE i \in 1..Len(s) :
            /\ ~IsSpace(s[i])
            /\ \A j \in (i + 1)..Len(s) : IsSpace(s[j])
    ELSE 0

\* str.strip()
StripBetween(s, first, last) ==
    IF first = 0 THEN <<>> ELSE SubSeq(s, first, last)

Strip(s) == StripBetween(s, FirstNonSpace(s), LastNonSpace(s))

\* str.endswith / str.startswith
EndsWith(s, suf) ==
    /\ Len(s) >= Len(suf)
    /\ SubSeq(s, Len(s) - Len(suf) + 1, Len(s)) = suf

StartsWith(s, pre) ==
    /\ Len(s) >= Len(pre)
    /\ SubSeq(s, 1, Len(pre)) = pre

\* s[i:i+len(t)] == t
MatchAt(s, i, t) ==
    /\ i >= 1
    /\ i + Len(t) - 1 <= Len(s)
    /\ \A k \in 1..Len(t) : s[i + k - 1] = t[k]

\* `t in s`
Contains(s, t) == \E i \in 1..(Len(s) - Len(t) + 1) : MatchAt(s, i, t)

\* word[:-n]
DropLast(s, n) == SubSeq(s, 1, Len(s) - n)

(***************************************************************************)
(* chatbot_service._normalize_word                                         *)
(***************************************************************************)
\* lines 36-46, on the lower-cased, stripped word
Singular(word) ==
    IF EndsWith(word, <<"i", "e", "s">>) /\ Len(word) > 4
        THEN DropLast(word, 3) \o <<"y">>
    ELSE IF EndsWith(word, <<"o", "e", "s">>) /\ Len(word) > 4
        THEN DropLast(word, 2)
    ELSE IF \/ EndsWith(word, <<"c", "h", "e", "s">>)
            \/ EndsWith(word, <<"s", "h", "e", "s">>)
            \/ EndsWith(word, <<"x", "e", "s">>)
        THEN DropLast(word, 2)
    ELSE IF EndsWith(word, <<"s", "e", "s">>) /\ Len(word) > 4
        THEN DropLast(word, 2)
    ELSE IF EndsWith(word, <<"s">>) /\ Len(word) > 3
        THEN DropLast(word, 1)
    ELSE word

_normalize_word(w) == Singular(Strip(Lower(w)))

(***************************************************************************)
(* Regular-expression pieces.  Every pattern of the service is a sequence  *)
(* of literals, alternatives with distinct first letters, \s*, \s+ and     *)
(* greedy digit runs, so a match at a position is deterministic.  A        *)
(* position of 0 means "no match".                                         *)
(***************************************************************************)
Digits == {"0", "1", "2", "3", "4", "5", "6", "7", "8", "9"}

DigitVal ==
    [c \in Digits |->
        CASE c = "0" -> 0 [] c = "1" -> 1 [] c = "2" -> 2 [] c = "3" -> 3
          [] c = "4" -> 4 [] c = "5" -> 5 [] c = "6" -> 6 [] c = "7" -> 7
          [] c = "8" -> 8 [] c = "9" -> 9]

Letters ==
    {"a", "b", "c", "d", "e", "f", "g", "h", "i", "j", "k", "l", "m", "n",
     "o", "p", "q", "r", "s", "t", "u", "v", "w", "x", "y", "z"}

\* the class [A-Za-z0-9\-']
IsWordChar(c) ==
    \/ c \in Letters
    \/ c \in DOMAIN LowerTable
    \/ c \in Digits
    \/ c = "-"
    \/ c = "'"

\* the one-character atom standing for a non-ASCII letter (e with acute)
EAcute == "e_acute"

\* \w of a str pattern: Unicode letters, digits, underscore
IsAlnum(c) ==
    \/ c \in Letters
    \/ c \in DOMAIN LowerTable
    \/ c \in Digits
    \/ c = "_"
    \/ c = EAcute

IsDigitAt(s, i) == i >= 1 /\ i <= Len(s) /\ s[i] \in Digits

\* the position after a literal at i
AfterLit(s, i, t) == IF i > 0 /\ MatchAt(s, i, t) THEN i + Len(t) ELSE 0

\* the position after the alternative of `alts` found at i
AfterAlt(s, i, alts) ==
    IF i > 0 /\ \E t \in alts : MatchAt(s, i, t)
    THEN i + Len(CHOOSE t \in alts :
                    /\ MatchAt(s, i, t)
                    /\ \A u \in alts : MatchAt(s, i, u) => Len(u) <= Len(t))
    ELSE 0

\* \s* and \s+ from i
AfterSpaces0(s, i) ==
    IF i = 0 THEN 0
    ELSE CHOOSE j \in i..(Len(s) + 1) :
            /\ \A k \in i..(j - 1) : IsSpace(s[k])
            /\ (j <= Len(s) => ~IsSpace(s[j]))

AfterSpaces1(s, i) ==
    IF i > 0 /\ i <= Len(s) /\ IsSpace(s[i]) THEN AfterSpaces0(s, i) ELSE 0

\* an optional literal (greedy)
AfterOpt(s, i, t) == IF i > 0 /\ MatchAt(s, i, t) THEN i + Len(t) ELSE i

\* \d+ from i
AfterDigits(s, i) ==
    IF ~IsDigitAt(s, i) THEN 0
    ELSE CHOOSE j \in (i + 1)..(Len(s) + 1) :
            /\ \A k \in i..(j - 1) : s[k] \in Digits
            /\ ~IsDigitAt(s, j)

RECURSIVE DigitsToNat(_)
DigitsToNat(ds) ==
    IF ds = <<>> THEN 0
    ELSE 10 * DigitsToNat(DropLast(ds, 1)) + DigitVal[ds[Len(ds)]]

RECURSIVE Pow10(_)
Pow10(n) == IF n = 0 THEN 1 ELSE 10 * Pow10(n - 1)

\* (\d+(?:\.\d+)?) at i, and float() of the group: the number is num / den
NumberOf(s, i, j, k) ==
    IF j = 0 THEN [end |-> 0, num |-> 0, den |-> 1]
    ELSE IF k = 0
        THEN [end |-> j, num |-> DigitsToNat(SubSeq(s, i, j - 1)), den |-> 1]
    ELSE [end |-> k,
          num |-> DigitsToNat(SubSeq(s, i, j - 1) \o SubSeq(s, j + 1, k - 1)),
          den |-> Pow10(k - j - 1)]

FractionAfter(s, j) ==
    IF j > 0 /\ j <= Len(s) /\ s[j] = "." THEN AfterDigits(s, j + 1) ELSE 0

NumberFrom(s, i, j) == NumberOf(s, i, j, FractionAfter(s, j))

NumberAt(s, i) == NumberFrom(s, i, AfterDigits(s, i))

\* re.findall(r"[A-Za-z0-9\-']{n,}", s) (kind "word") and str.split()
\* (kind "nonspace", n = 1): the maximal runs of the class, n or more long
InClass(c, kind) == IF kind = "word" THEN IsWordChar(c) ELSE ~IsSpace(c)

RunEnd(s, i, kind) ==
    CHOOSE j \in i..Len(s) :
        /\ \A k \in i..j : InClass(s[k], kind)
        /\ (j < Len(s) => ~InClass(s[j + 1], kind))

RECURSIVE RunsFrom(_, _, _, _)
RunsStep(s, i, e, n, kind) ==
    (IF e - i + 1 >= n THEN <<SubSeq(s, i, e)>> ELSE <<>>)
        \o RunsFrom(s, e + 1, n, kind)

RunsFrom(s, i, n, kind) ==
    IF i > Len(s) THEN <<>>
    ELSE IF ~InClass(s[i], kind) THEN RunsFrom(s, i + 1, n, kind)
    ELSE RunsStep(s, i, RunEnd(s, i, kind), n, kind)

FindAllWords(s, n) == RunsFrom(s, 1, n, "word")

Split(s) == RunsFrom(s, 1, 1, "nonspace")

\* " ".join(ws)
RECURSIVE JoinSpace(_)
JoinSpace(ws) ==
    IF ws = <<>> THEN <<>>
    ELSE IF Len(ws) = 1 THEN ws[1]
    ELSE ws[1] \o <<" ">> \o JoinSpace(Tail(ws))

\* [f(x) for x in xs] for f = _normalize_word
NormalizeAll(ws) == [i \in 1..Len(ws) |-> _normalize_word(ws[i])]

\* set(xs)
SetOf(xs) == {xs[i] : i \in 1..Len(xs)}

(***************************************************************************)
(* Number formatting                                                       *)
(***************************************************************************)
DigitChar == <<"0", "1", "2", "3", "4", "5", "6", "7", "8", "9">>

RECURSIVE NatToStr(_)
NatToStr(n) ==
    IF n < 10 THEN <<DigitChar[n + 1]>>
    ELSE NatToStr(n \div 10) \o <<DigitChar[(n % 10) + 1]>>

\* f"{x:.2f}" for x = cents / 100
Fmt2fCents(cents) ==
    NatToStr(cents \div 100) \o <<".">>
        \o <<DigitChar[((cents % 100) \div 10) + 1], DigitChar[(cents % 10) + 1]>>

\* f"{x:.2f}" for a whole number x
Fmt2fWhole(n) == NatToStr(n) \o <<".", "0", "0">>

\* f"{x}" for the float x = tenths / 10, and for a whole float
FmtTenths(tenths) ==
    NatToStr(tenths \div 10) \o <<".">> \o <<DigitChar[(tenths % 10) + 1]>>

FmtWholeFloat(n) == NatToStr(n) \o <<".", "0">>


(***************************************************************************)
(* chatbot_service: intent keyword sets and matchers                       *)
(***************************************************************************)
GREETINGS ==
    {<<"h", "i">>,
     <<"h", "e", "l", "l", "o">>,
     <<"h", "e", "y">>,
     <<"g", "o", "o", "d", " ", "m", "o", "r", "n", "i", "n", "g">>,
     <<"g", "o", "o", "d", " ", "a", "f", "t", "e", "r", "n", "o", "o", "n">>,
     <<"g", "o", "o", "d", " ", "e", "v", "e", "n", "i", "n", "g">>,
     <<"g", "r", "e", "e", "t", "i", "n", "g", "s">>}

FAREWELL ==
    {<<"b", "y", "e">>,
     <<"g", "o", "o", "d", "b", "y", "e">>,
     <<"s", "e", "e", " ", "y", "o", "u">>,
     <<"t", "a", "k", "e", " ", "c", "a", "r", "e">>}

INQUIRY_PRICE ==
    {<<"p", "r", "i", "c", "e">>,
     <<"c", "o", "s", "t">>,
     <<"h", "o", "w", " ", "m", "u", "c", "h">>,
     <<"w", "h", "a", "t", " ", "i", "s", " ", "t", "h", "e", " ", "p", "r", "i", "c", "e">>,
     <<"p", "r", "i", "c", "e", "d">>}

INQUIRY_STOCK ==
    {<<"s", "t", "o", "c", "k">>,
     <<"a", "v", "a", "i", "l", "a", "b", "l", "e">>,
     <<"a", "v", "a", "i", "l", "a", "b", "i", "l", "i", "t", "y">>,
     <<"i", "n", " ", "s", "t", "o", "c", "k">>}

INQUIRY_RATING ==
    {<<"r", "a", "t", "i", "n", "g">>,
     <<"r", "a", "t", "i", "n", "g", "s">>,
     <<"r", "e", "v", "i", "e", "w">>,
     <<"r", "e", "v", "i", "e", "w", "s">>,
     <<"s", "t", "a", "r", "s">>}

AnyIn(m, keywords) == \E k \in keywords : Contains(m, k)

_contains_keyword(msg, keywords) == AnyIn(Lower(msg), keywords)

\* a greeting only when the whole message is a greeting keyword
_is_greeting_whole(msg) == Lower(msg) \in GREETINGS

_is_greeting(msg) == AnyIn(Lower(msg), GREETINGS)

_is_farewell(msg) == AnyIn(Lower(msg), FAREWELL)

(***************************************************************************)
(* chatbot_service: the patterns searched in a message.  re.I is modelled  *)
(* by searching the lower-cased text for the lower-case pattern.           *)
(***************************************************************************)
\* a float of the message: the value num / den; <<>> when there is none
NoNumber == <<>>

AboveWords ==
    {<<"a", "b", "o", "v", "e">>,
     <<"o", "v", "e", "r">>,
     <<"g", "r", "e", "a", "t", "e", "r", " ", "t", "h", "a", "n">>}

\* ratings?\s*(?:above|over|greater than)\s* matched at i: the position
\* where the digits must start
RatingPrefixAt(s, i) ==
    AfterSpaces0(s,
        AfterAlt(s,
            AfterSpaces0(s, AfterOpt(s, AfterLit(s, i, <<"r", "a", "t", "i", "n", "g">>), <<"s">>)),
            AboveWords))

\* re.search(r'ratings?\s*(?:above|over|greater than)\s*\d', txt, re.I)
\* the positions where the rating pattern matches
RatingHits(s) == {i \in 1..Len(s) : IsDigitAt(s, RatingPrefixAt(s, i))}

\* re.search(r'ratings?\s*(?:above|over|greater than)\s*\d', txt, re.I)
RatingGuard(txt) == RatingHits(Lower(txt)) # {}

\* the leftmost position of a non-empty set of positions
First(S) == CHOOSE h \in S : \A g \in S : h <= g

AsNumber(n) == [num |-> n.num, den |-> n.den]

ThresholdOf(s, hits) ==
    IF hits = {} THEN NoNumber
    ELSE <<AsNumber(NumberAt(s, RatingPrefixAt(s, First(hits))))>>

ThresholdIn(s) == ThresholdOf(s, RatingHits(s))

\* float(m.group(1)) of
\* re.search(r'ratings?\s*(?:above|over|greater than)\s*(\d+(?:\.\d+)?)', txt, re.I)
RatingThreshold(txt) == ThresholdIn(Lower(txt))

UnderWords ==
    {<<"u", "n", "d", "e", "r">>,
     <<"b", "e", "l", "o", "w">>,
     <<"l", "e", "s", "s", " ", "t", "h", "a", "n">>}

OverWords ==
    {<<"o", "v", "e", "r">>,
     <<"a", "b", "o", "v", "e">>,
     <<"m", "o", "r", "e", " ", "t", "h", "a", "n">>}

\* between\s+(\d+(?:\.\d+)?)\s+and\s+(\d+(?:\.\d+)?) matched at i
Between4(a, n1, b, n2) ==
    [ok |-> a > 0 /\ n1.end > 0 /\ b > 0 /\ n2.end > 0,
     lo |-> AsNumber(n1),
     hi |-> AsNumber(n2)]

Between3(s, a, n1, b) == Between4(a, n1, b, NumberAt(s, b))

Between2(s, a, n1) ==
    Between3(s, a, n1,
             AfterSpaces1(s, AfterLit(s, AfterSpaces1(s, n1.end), <<"a", "n", "d">>)))

Between1(s, a) == Between2(s, a, NumberAt(s, a))

BetweenAt(s, i) ==
    Between1(s, AfterSpaces1(s, AfterLit(s, i, <<"b", "e", "t", "w", "e", "e", "n">>)))

\* (?:w1|w2|w3)\s+\$?(\d+(?:\.\d+)?) matched at i
Bound2(a, n) == [ok |-> a > 0 /\ n.end > 0, val |-> AsNumber(n)]

Bound1(s, a) == Bound2(a, NumberAt(s, a))

BoundAt(s, i, ws) ==
    Bound1(s, AfterOpt(s, AfterSpaces1(s, AfterAlt(s, i, ws)), <<"$">>))

\* _extract_price_range(message) -> (low, high)
BetweenRange(r) == [low |-> <<r.lo>>, high |-> <<r.hi>>]

RangeOf(s, between, under, over) ==
    IF between # {} THEN BetweenRange(BetweenAt(s, First(between)))
    ELSE IF under # {}
        THEN [low |-> NoNumber, high |-> <<BoundAt(s, First(under), UnderWords).val>>]
    ELSE IF over # {}
        THEN [low |-> <<BoundAt(s, First(over), OverWords).val>>, high |-> NoNumber]
    ELSE [low |-> NoNumber, high |-> NoNumber]

RangeIn(s) ==
    RangeOf(s,
            {i \in 1..Len(s) : BetweenAt(s, i).ok},
            {i \in 1..Len(s) : BoundAt(s, i, UnderWords).ok},
            {i \in 1..Len(s) : BoundAt(s, i, OverWords).ok})

_extract_price_range(msg) == RangeIn(Lower(msg))

\* \b at position i (between s[i-1] and s[i])
AlnumAt(s, i) == i >= 1 /\ i <= Len(s) /\ IsAlnum(s[i])

WordBoundary(s, i) == AlnumAt(s, i - 1) # AlnumAt(s, i)

CategoriesWord == <<"c", "a", "t", "e", "g", "o", "r", "i", "e", "s">>

TypesOfProducts == <<"t", "y", "p", "e", "s", " ", "o", "f", " ", "p", "r", "o", "d", "u", "c", "t", "s">>

\* re.search(r'\b(categories|types of products|what.*categories)\b', lower_txt)
WholeWordAt(s, i, w) ==
    /\ MatchAt(s, i, w)
    /\ WordBoundary(s, i)
    /\ WordBoundary(s, i + Len(w))

AsksCategories(lower_txt) ==
    \E i \in 1..Len(lower_txt) :
        \/ WholeWordAt(lower_txt, i, CategoriesWord)
        \/ WholeWordAt(lower_txt, i, TypesOfProducts)
        \/ /\ MatchAt(lower_txt, i, <<"w", "h", "a", "t">>)
           /\ WordBoundary(lower_txt, i)
           /\ \E j \in (i + 4)..Len(lower_txt) :
                /\ MatchAt(lower_txt, j, CategoriesWord)
                /\ WordBoundary(lower_txt, j + Len(CategoriesWord))

(***************************************************************************)
(* str ordering (by code point) and sorted(set(...)) of strs               *)
(***************************************************************************)
CharOrder ==
    <<" ", "$", "'", "-", ".", "0", "1", "2", "3", "4", "5", "6", "7", "8",
     "9", "?", "A", "B", "C", "D", "E", "F", "G", "H", "I", "J", "K", "L",
     "M", "N", "O", "P", "Q", "R", "S", "T", "U", "V", "W", "X", "Y", "Z",
     "_", "a", "b", "c", "d", "e", "f", "g", "h", "i", "j", "k", "l", "m",
     "n", "o", "p", "q", "r", "s", "t", "u", "v", "w", "x", "y", "z",
      EAcute>>

Ord(c) == CHOOSE i \in 1..Len(CharOrder) : CharOrder[i] = c

\* a < b for strs
StrLess(a, b) ==
    \E i \in 1..(Len(a) + 1) :
        /\ i <= Len(b)
        /\ \A k \in 1..(i - 1) : a[k] = b[k]
        /\ (i = Len(a) + 1 \/ Ord(a[i]) < Ord(b[i]))

RECURSIVE SortedStrs(_)
LeastFirst(S, m) == <<m>> \o SortedStrs(S \ {m})

SortedStrs(S) ==
    IF S = {} THEN <<>>
    ELSE LeastFirst(S, CHOOSE x \in S : \A y \in S : x = y \/ StrLess(x, y))

\* str.capitalize()
Capitalize(s) ==
    [i \in 1..Len(s) |-> IF i = 1 THEN UpperChar(s[i]) ELSE LowerChar(s[i])]

(***************************************************************************)
(* product_service: pure helpers                                           *)
(***************************************************************************)
\* x or 0.0, for an Optional number
OrZero(opt) == IF opt = <<>> THEN 0 ELSE opt[1]

\* s or default, for an Optional str
OrStr(s, default) == IF s = None \/ s = <<>> THEN default ELSE s

\* round(x / d) to the nearest integer, ties to even (Python's round)
RoundQR(q, r, d) ==
    IF 2 * r < d THEN q
    ELSE IF 2 * r > d THEN q + 1
    ELSE IF q % 2 = 0 THEN q ELSE q + 1

RoundHalfEven(x, d) == RoundQR(x \div d, x % d, d)

\* the discount added to the price instead of taken off it
DiscountedUp(price, discount_pct) == price * (100 + OrZero(discount_pct))

\* price * (100 - (discount_pct or 0.0)), in hundredths of a cent: line 51
\* before the rounding, for a price in cents and an Optional whole percent
Discounted(price, discount_pct) == price * (100 - OrZero(discount_pct))

\* compute_actual_price(price, discount_pct), in cents:
\* round(price * (1 - (discount_pct or 0.0) / 100.0), 2).  A product that is
\* exactly half a cent is rounded here to the even cent; the code rounds the
\* binary float, which lies just above or just below the half (see
\* ActualPrices).  No operation of line 51 raises for numbers, so the except
\* branch of lines 52-53 is never taken.
compute_actual_price(price, discount_pct) ==
    RoundHalfEven(Discounted(price, discount_pct), 100)

\* the values compute_actual_price can return: at an exact half cent either
\* neighbour, decided by the binary float
RoundingsOf(x, d) ==
    IF 2 * (x % d) = d THEN {x \div d, (x \div d) + 1} ELSE {RoundHalfEven(x, d)}

ActualPrices(price, discount_pct) == RoundingsOf(Discounted(price, discount_pct), 100)

\* value >= n and value <= n, for value = scaled / scale and n = num / den
GeNumber(scaled, scale, n) == scaled * n.den >= n.num * scale

LeNumber(scaled, scale, n) == scaled * n.den <= n.num * scale

\* filter_products(products, min_price, max_price, min_rating)
AtLeastPrice(out, min_price) ==
    IF min_price # NoNumber
    THEN SelectSeq(out, LAMBDA p : GeNumber(p.price, 100, min_price[1]))
    ELSE out

AtMostPrice(out, max_price) ==
    IF max_price # NoNumber
    THEN SelectSeq(out, LAMBDA p : LeNumber(p.price, 100, max_price[1]))
    ELSE out

\* the rating filter with > in place of >=
AboveRating(out, min_rating) ==
    IF min_rating # NoNumber
    THEN SelectSeq(out, LAMBDA p : ~LeNumber(OrZero(<<p.rating>>), 10, min_rating[1]))
    ELSE out

AtLeastRating(out, min_rating) ==
    IF min_rating # NoNumber
    THEN SelectSeq(out, LAMBDA p : GeNumber(OrZero(<<p.rating>>), 10, min_rating[1]))
    ELSE out

filter_products(prods, min_price, max_price, min_rating) ==
    AtLeastRating(AtMostPrice(AtLeastPrice(prods, min_price), max_price), min_rating)

\* search_by_category(products, category)
InCategory(prods, c) ==
    IF c = <<>> THEN <<>>
    ELSE SelectSeq(prods, LAMBDA p : Lower(OrStr(p.category, <<>>)) = c)

search_by_category(prods, category) ==
    InCategory(prods, Lower(Strip(OrStr(category, <<>>))))

(***************************************************************************)
(* chatbot_service: product identification (lines 82-105)                  *)
(***************************************************************************)
\* norm_txt
NormTxt(lower_txt) == JoinSpace(NormalizeAll(FindAllWords(lower_txt, 2)))

\* [p for p in products if p.title.lower() == lower_txt]
ExactMatches(prods, lower_txt) ==
    SelectSeq(prods, LAMBDA p : Lower(p.title) = lower_txt)

\* [p for p in products if _normalize_word(p.title.lower()) in norm_txt]
SubstringMatches(prods, norm_txt) ==
    SelectSeq(prods, LAMBDA p : Contains(norm_txt, _normalize_word(Lower(p.title))))

\* tokens
Tokens(norm_txt) == NormalizeAll(FindAllWords(norm_txt, 3))

\* score of one product
Score(p, tokens) ==
    Cardinality(SetOf(tokens) \cap SetOf(NormalizeAll(Split(Lower(p.title)))))

\* candidates, in catalog order
Candidate(p, score) == IF score > 0 THEN <<[score |-> score, p |-> p]>> ELSE <<>>

RECURSIVE Candidates(_, _)
Candidates(prods, tokens) ==
    IF prods = <<>> THEN <<>>
    ELSE Candidate(prods[1], Score(prods[1], tokens))
            \o Candidates(Tail(prods), tokens)

\* where list.sort(reverse=True, key=score) puts c among the already sorted
\* elements that preceded it: after every element with an equal or higher
\* score (the sort is stable, also with reverse=True)
InsertAfter(sorted, k, c) ==
    SubSeq(sorted, 1, k) \o <<c>> \o SubSeq(sorted, k + 1, Len(sorted))

\* a sort that puts c before the elements of equal score
InsertBeforeEqual(sorted, c) ==
    InsertAfter(sorted,
                Cardinality({i \in 1..Len(sorted) : sorted[i].score > c.score}),
                c)

InsertDesc(sorted, c) ==
    InsertAfter(sorted,
                Cardinality({i \in 1..Len(sorted) : sorted[i].score >= c.score}),
                c)

RECURSIVE SortByScoreDesc(_)
SortByScoreDesc(cs) ==
    IF cs = <<>> THEN <<>>
    ELSE InsertDesc(SortByScoreDesc(DropLast(cs, 1)), cs[Len(cs)])

BestOf(candidates) == IF candidates # <<>> THEN <<candidates[1].p>> ELSE <<>>

TokenMatches(prods, norm_txt) ==
    BestOf(SortByScoreDesc(Candidates(prods, Tokens(norm_txt))))

\* name_matches
\* the three tiers, each tried only when the one before found nothing
FirstTier(exact, substring, token) ==
    IF exact # <<>> THEN exact
    ELSE IF substring # <<>> THEN substring
    ELSE token

MatchesIn(prods, lower_txt, norm_txt) ==
    FirstTier(ExactMatches(prods, lower_txt),
              SubstringMatches(prods, norm_txt),
              TokenMatches(prods, norm_txt))

MatchesLower(prods, lower_txt) == MatchesIn(prods, lower_txt, NormTxt(lower_txt))

\* name_matches
NameMatches(prods, txt) == MatchesLower(prods, Lower(txt))

(***************************************************************************)
(* chatbot_service: the texts.  A literal is one atom of the str; an em    *)
(* dash is written --, the emoji (wave), a double quote (dq), a newline    *)
(* (nl).                                                                   *)
(***************************************************************************)
EmptyMessageReply ==
    <<"Sorry, I didn't receive a message. Please ask about a product or say 'hi'.">>

GreetingReply ==
    <<"Hello! (wave) How can I help you today? Ask about a product name, category, price range, or rating.">>

FarewellReply == <<"Goodbye! If you need anything else, just ask.">>

LoadFailedReply ==
    <<"Sorry -- I couldn't load products right now. Please try again later.">>

\* groq_client: the prefix chatbot_service tests for, and the whole fallback
SentinelPrefix == <<"Sorry -- I couldn't reach the AI service">>

Sentinel ==
    SentinelPrefix
        \o <<" right now. I can still give you a quick product summary if you want.">>

EmptyAiReply == <<"Sorry -- the AI returned an empty response.">>

\* facts (lines 114-124)
FactsWith(prod, discount) ==
    [name |-> prod.title,
     description |-> prod.description,
     price |-> prod.price,
     discount |-> discount,
     actual_price |-> compute_actual_price(prod.price, <<discount>>),
     rating |-> OrZero(<<prod.rating>>),
     stock |-> OrZero(<<prod.stock>>),
     brand |-> OrStr(prod.brand, <<"Unknown">>),
     category |-> OrStr(prod.category, <<"Unknown">>)]

Facts(prod) == FactsWith(prod, OrZero(<<prod.discountPercentage>>))

PriceTemplate(f) ==
    f.name \o <<" is priced at $">> \o Fmt2fCents(f.price)
        \o <<". After a ">> \o Fmt2fWhole(f.discount)
        \o <<"% discount the final price is $">> \o Fmt2fCents(f.actual_price)
        \o <<".">>

StockTemplate(f) ==
    <<"Currently we have ">> \o NatToStr(f.stock) \o <<" unit(s) of ">>
        \o f.name \o <<" in stock.">>

RatingTemplate(f) ==
    f.name \o <<" has an average rating of ">> \o FmtTenths(f.rating)
        \o <<" stars.">>

\* the prompt of lines 135-151
ProductPrompt(msg, f) ==
    <<"You are a helpful and friendly e-commerce assistant. Use only the facts below to answer the customer's query naturally and helpfully.",
      "(nl)Customer message: (dq)">> \o msg
        \o <<"(dq)(nl)Product facts:(nl)- Name: ">> \o f.name
        \o <<"(nl)- Brand: ">> \o f.brand
        \o <<"(nl)- Category: ">> \o f.category
        \o <<"(nl)- Description: ">> \o f.description
        \o <<"(nl)- Price: $">> \o Fmt2fCents(f.price)
        \o <<"(nl)- Discount: ">> \o Fmt2fWhole(f.discount) \o <<"%">>
        \o <<"(nl)- Final price (after discount): $">> \o Fmt2fCents(f.actual_price)
        \o <<"(nl)- Rating: ">> \o FmtTenths(f.rating)
        \o <<"(nl)- Stock: ">> \o NatToStr(f.stock)
        \o <<"(nl)Write a concise, friendly response (1-3 short paragraphs) that answers the user's question using these facts. If the user is vague, offer helpful next steps or a follow-up question.">>

\* the local summary of lines 155-157
LocalSummary(f) ==
    f.name \o <<" -- ">> \o f.description \o <<" Price: $">>
        \o Fmt2fCents(f.price) \o <<" (after ">> \o Fmt2fWhole(f.discount)
        \o <<"% off: $">> \o Fmt2fCents(f.actual_price) \o <<"), rating ">>
        \o FmtTenths(f.rating) \o <<", stock ">> \o NatToStr(f.stock) \o <<".">>

\* the prompt of lines 213-218
GenericPrompt(msg) ==
    <<"You are a friendly shopping assistant.(nl)The user said: (dq)">> \o msg
        \o <<"(dq)(nl)If the message is not specifically about a product, reply in a short conversational way, but avoid making up product facts. If unsure, offer guidance on what they can ask.">>

\* one line of a product list (lines 176-180 and 195-199)
ListLine(it) ==
    it.title \o <<" -- $">>
        \o Fmt2fCents(compute_actual_price(it.price, <<OrZero(<<it.discountPercentage>>)>>))
        \o <<" (orig $">> \o Fmt2fCents(it.price) \o <<", ">>
        \o FmtWholeFloat(it.discountPercentage) \o <<"% off), rating ">>
        \o FmtTenths(it.rating) \o <<", stock ">> \o NatToStr(it.stock)

\* "\n".join(lines) / "\n- ".join(strs)
RECURSIVE JoinWith(_, _)
JoinWith(strs, sep) ==
    IF strs = <<>> THEN <<>>
    ELSE IF Len(strs) = 1 THEN strs[1]
    ELSE strs[1] \o sep \o JoinWith(Tail(strs), sep)

Lines(items) == JoinWith([i \in 1..Len(items) |-> ListLine(items[i])], <<"(nl)">>)

\* items[:6]
DisplayCap == 6

Take(items, n) == SubSeq(items, 1, IF Len(items) < n THEN Len(items) ELSE n)

\* f"{x}" for the float x = num / den (den a power of ten)
RECURSIVE StripZeros(_)
StripZeros(ds) ==
    IF Len(ds) > 1 /\ ds[Len(ds)] = "0" THEN StripZeros(DropLast(ds, 1)) ELSE ds

RECURSIVE PadZeros(_, _)
PadZeros(ds, n) == IF Len(ds) >= n THEN ds ELSE PadZeros(<<"0">> \o ds, n)

FractionDigits(n) ==
    IF n.den = 1 THEN <<"0">>
    ELSE StripZeros(PadZeros(NatToStr(n.num % n.den), Len(NatToStr(n.den)) - 1))

FmtNumber(n) == NatToStr(n.num \div n.den) \o <<".">> \o FractionDigits(n)

\* truthiness of an Optional float
Truthy(opt) == opt # NoNumber /\ opt[1].num # 0

\* the header of lines 201-208
FilterHeader(low, high, min_rating) ==
    IF Truthy(min_rating)
        THEN <<"Here are some products rated above ">> \o FmtNumber(min_rating[1])
                \o <<":(nl)">>
    ELSE IF Truthy(high)
        THEN <<"Here are some products under $">> \o FmtNumber(high[1]) \o <<":(nl)">>
    ELSE IF Truthy(low)
        THEN <<"Here are some products above $">> \o FmtNumber(low[1]) \o <<":(nl)">>
    ELSE <<"Here are some matching products:(nl)">>

(***************************************************************************)
(* chatbot_service.generate_chat_response, lines 82-219: everything after  *)
(* the catalog was loaded, up to a return or a call of query_groq.         *)
(*   at = "return"        : reply is what is returned                      *)
(*   at = "groq_product"  : query_groq(prompt) is called at line 152       *)
(*   at = "groq_generic"  : query_groq(prompt) is called at line 219       *)
(***************************************************************************)
\* lines 108-158
ProductBranch(matches, prod) ==
    [name_matches |-> matches, answered |-> <<prod>>, filtered |-> <<>>,
     listed |-> <<>>]

\* the price template whenever a price is asked for
AnswerFactsPriceFirst(msg, matches, facts, wants_price, wants_stock, wants_rating) ==
    IF wants_price
        THEN ProductBranch(matches, matches[1]) @@
             [at |-> "return", branch |-> "price", prompt |-> None,
              reply |-> PriceTemplate(facts)]
    ELSE ProductBranch(matches, matches[1]) @@
             [at |-> "groq_product", branch |-> "product",
              prompt |-> ProductPrompt(msg, facts), reply |-> None]

AnswerFacts(msg, matches, facts, wants_price, wants_stock, wants_rating) ==
    IF wants_price /\ ~(wants_stock \/ wants_rating)
        THEN ProductBranch(matches, matches[1]) @@
             [at |-> "return", branch |-> "price", prompt |-> None,
              reply |-> PriceTemplate(facts)]
    ELSE IF wants_stock /\ ~(wants_price \/ wants_rating)
        THEN ProductBranch(matches, matches[1]) @@
             [at |-> "return", branch |-> "stock", prompt |-> None,
              reply |-> StockTemplate(facts)]
    ELSE IF wants_rating /\ ~(wants_price \/ wants_stock)
        THEN ProductBranch(matches, matches[1]) @@
             [at |-> "return", branch |-> "rating", prompt |-> None,
              reply |-> RatingTemplate(facts)]
    ELSE ProductBranch(matches, matches[1]) @@
             [at |-> "groq_product", branch |-> "product",
              prompt |-> ProductPrompt(msg, facts), reply |-> None]

AnswerProduct(msg, txt, matches) ==
    AnswerFacts(msg, matches, Facts(matches[1]),
                _contains_keyword(txt, INQUIRY_PRICE),
                _contains_keyword(txt, INQUIRY_STOCK),
                _contains_keyword(txt, INQUIRY_RATING))

\* the default of (p.category or "unknown")
Unknown == <<"u", "n", "k", "n", "o", "w", "n">>

\* lines 160-219
CatalogBranch(matches, shown) ==
    [name_matches |-> matches, answered |-> <<>>, filtered |-> <<>>,
     listed |-> shown, prompt |-> None]

\* p.category or "unknown", of every product
CategoryNames(prods) ==
    {OrStr(prods[i].category, Unknown) : i \in 1..Len(prods)}

\* lines 163-165
AnswerCategories(matches, names) ==
    CatalogBranch(matches, <<>>) @@
    [at |-> "return", branch |-> "categories",
     reply |-> <<"We currently offer products in these categories:(nl)- ">>
                \o JoinWith(SortedStrs({Capitalize(n) : n \in names}), <<"(nl)- ">>)]

\* lines 171-181
AnswerCategoryItems(matches, c, items) ==
    IF items = <<>>
    THEN CatalogBranch(matches, <<>>) @@
         [at |-> "return", branch |-> "category_empty",
          reply |-> <<"Sorry -- I couldn't find items in '">> \o c \o <<"'.">>]
    ELSE CatalogBranch(matches, items) @@
         [at |-> "return", branch |-> "category",
          reply |-> <<"I found these items in *">> \o c \o <<"*:(nl)">> \o Lines(items)]

AnswerCategory(matches, prods, c) ==
    AnswerCategoryItems(matches, c, Take(search_by_category(prods, c), DisplayCap))

\* lines 190-219
AnswerFiltered(msg, matches, low, high, min_rating, found) ==
    IF found # <<>>
    THEN [CatalogBranch(matches, Take(found, DisplayCap))
            EXCEPT !.filtered = found] @@
         [at |-> "return", branch |-> "filter",
          reply |-> FilterHeader(low, high, min_rating)
                        \o Lines(Take(found, DisplayCap))]
    ELSE [CatalogBranch(matches, <<>>) EXCEPT !.prompt = GenericPrompt(msg)] @@
         [at |-> "groq_generic", branch |-> "generic", reply |-> None]

\* lines 184-190
AnswerFilter(msg, prods, matches, range, min_rating) ==
    AnswerFiltered(msg, matches, range.low, range.high, min_rating,
                   filter_products(prods, range.low, range.high, min_rating))

\* lines 168-219
AnswerMentioned(msg, txt, prods, matches, mentioned) ==
    IF mentioned # <<>>
    THEN AnswerCategory(matches, prods, mentioned[1])
    ELSE AnswerFilter(msg, prods, matches, _extract_price_range(txt),
                      RatingThreshold(txt))

\* the categories of line 168 that are in the message, in sorted order
Mentioned(lower_txt, names) ==
    SelectSeq(SortedStrs({Lower(n) : n \in names}),
              LAMBDA c : Contains(lower_txt, c))

AnswerLower(msg, txt, lower_txt, prods, matches) ==
    IF AsksCategories(lower_txt)
    THEN AnswerCategories(matches, CategoryNames(prods))
    ELSE AnswerMentioned(msg, txt, prods, matches,
                         Mentioned(lower_txt, CategoryNames(prods)))

\* lines 160-219
AnswerCatalog(msg, txt, prods, matches) ==
    AnswerLower(msg, txt, Lower(txt), prods, matches)

\* the product branch taken whenever a name matched
AnswerWithoutGuard(msg, txt, prods, matches) ==
    IF matches # <<>>
    THEN AnswerProduct(msg, txt, matches)
    ELSE AnswerCatalog(msg, txt, prods, matches)

\* lines 82-219 for a non-empty catalog
AnswerWith(msg, txt, prods, matches) ==
    IF matches # <<>> /\ ~RatingGuard(txt)
    THEN AnswerProduct(msg, txt, matches)
    ELSE AnswerCatalog(msg, txt, prods, matches)

AnswerStripped(msg, txt, prods) == AnswerWith(msg, txt, prods, NameMatches(prods, txt))

Answer(msg, prods) == AnswerStripped(msg, Strip(msg), prods)

(***************************************************************************)
(* product_service.fetch_products: the response of the catalog service and *)
(* the Product objects built from it (lines 27-41)                         *)
(***************************************************************************)
\* int(p.get("id")) raises on a missing id, Product(title=None) fails validation
ValidRaw(raw) == raw.id # <<>> /\ raw.title # None

\* Product(...), lines 29-40
ToProduct(raw) ==
    [id |-> raw.id[1],
     title |-> raw.title,
     description |-> OrStr(raw.description, <<>>),
     price |-> OrZero(raw.price),
     discountPercentage |-> OrZero(raw.discountPercentage),
     rating |-> OrZero(raw.rating),
     stock |-> OrZero(raw.stock),
     brand |-> raw.brand,
     category |-> raw.category,
     thumbnail |-> raw.thumbnail]

\* What one network fetch does: [ok |-> FALSE] when the except branch is
\* taken (request error, bad status, a product that cannot be built),
\* else the list assigned to _products_cache.
FetchOutcome(resp) ==
    IF resp.kind # "json" THEN [ok |-> FALSE, value |-> <<>>]
    ELSE IF \E i \in 1..Len(resp.products) : ~ValidRaw(resp.products[i])
        THEN [ok |-> FALSE, value |-> <<>>]
    ELSE [ok |-> TRUE,
          value |-> [i \in 1..Len(resp.products) |-> ToProduct(resp.products[i])]]

(***************************************************************************)
(* groq_client.query_groq: one HTTP attempt (lines 28-38)                  *)
(***************************************************************************)
max_retries == 3

\* `x.strip()` without the `or`: an empty answer stays empty
TextAsIs(stripped, default) == stripped

\* lines 31-34: the str returned for a parsed body, or a raise
\* (IndexError on choices == [], AttributeError on content == null)
TextOr(stripped, default) == IF stripped # <<>> THEN stripped ELSE default

ExtractContent(body) ==
    IF body.shape \in {"empty_choices", "null_content"}
        THEN [raised |-> TRUE, text |-> <<>>]
    ELSE [raised |-> FALSE,
          text |-> TextOr(Strip(IF body.shape = "content" THEN body.content ELSE <<>>),
                          EmptyAiReply)]

\* only the HTTP layer counted as a failure
AttemptFailsHttp(o) == o.kind # "json"

\* does the attempt end in the except branch?
AttemptFails(o) == o.kind # "json" \/ ExtractContent(o.body).raised

(***************************************************************************)
(* The inputs                                                              *)
(***************************************************************************)
\* the catalog service's products
MasterCatalog ==
    <<
     [id |-> <<1>>, title |-> <<"C", "a", "t", " ", "F", "o", "o", "d">>,
      description |-> <<"Dry food for adult cats.">>, price |-> <<899>>,
      discountPercentage |-> <<10>>, rating |-> <<45>>, stock |-> <<12>>,
      brand |-> <<"A", "c", "m", "e">>, category |-> <<"p", "e", "t", "s">>, thumbnail |-> None],
     [id |-> <<2>>, title |-> <<"C", "a", "t", " ", "T", "o", "y">>,
      description |-> None, price |-> <<400>>,
      discountPercentage |-> <<>>, rating |-> <<40>>, stock |-> <<>>,
      brand |-> None, category |-> None, thumbnail |-> None],
     [id |-> <<3>>, title |-> <<"K", "i", "w", "i">>,
      description |-> <<"Fresh green kiwi.">>, price |-> <<249>>,
      discountPercentage |-> <<15>>, rating |-> <<49>>, stock |-> <<24>>,
      brand |-> None, category |-> <<"g", "r", "o", "c", "e", "r", "i", "e", "s">>, thumbnail |-> None],
     [id |-> <<4>>, title |-> <<"G", "l", "a", "s", "s", " ", "C", "u", "p">>,
      description |-> <<"A clear drinking glass.">>, price |-> <<300>>,
      discountPercentage |-> <<0>>, rating |-> <<>>, stock |-> <<5>>,
      brand |-> <<"A", "c", "m", "e">>, category |-> <<"k", "i", "t", "c", "h", "e", "n">>, thumbnail |-> None],
     [id |-> <<5>>, title |-> <<"K", "i", "w", "i", " ", "J", "a", "m">>,
      description |-> <<"Jam made of kiwis.">>, price |-> <<299>>,
      discountPercentage |-> <<5>>, rating |-> <<38>>, stock |-> <<8>>,
      brand |-> None, category |-> <<"g", "r", "o", "c", "e", "r", "i", "e", "s">>, thumbnail |-> None],
     [id |-> <<6>>, title |-> <<"B", "o", "x", "e", "s">>,
      description |-> <<"Storage boxes.">>, price |-> <<250>>,
      discountPercentage |-> <<20>>, rating |-> <<41>>, stock |-> <<0>>,
      brand |-> None, category |-> <<"k", "i", "t", "c", "h", "e", "n">>, thumbnail |-> None],
     [id |-> <<7>>, title |-> <<"R", "i", "c", "e">>,
      description |-> <<"Long grain rice.">>, price |-> <<110>>,
      discountPercentage |-> <<>>, rating |-> <<40>>, stock |-> <<30>>,
      brand |-> None, category |-> <<"g", "r", "o", "c", "e", "r", "i", "e", "s">>, thumbnail |-> None],
     [id |-> <<8>>, title |-> <<"M", "i", "l", "k">>,
      description |-> <<"Whole milk.">>, price |-> <<99>>,
      discountPercentage |-> <<40>>, rating |-> <<35>>, stock |-> <<3>>,
      brand |-> None, category |-> <<"G", "r", "o", "c", "e", "r", "i", "e", "s">>, thumbnail |-> None],
     [id |-> <<9>>, title |-> <<"T", "e", "a">>,
      description |-> <<"Black tea.">>, price |-> <<120>>,
      discountPercentage |-> <<0>>, rating |-> <<47>>, stock |-> <<9>>,
      brand |-> <<"A", "c", "m", "e">>, category |-> <<"g", "r", "o", "c", "e", "r", "i", "e", "s">>, thumbnail |-> None],
     [id |-> <<10>>, title |-> <<"S", "a", "l", "t">>,
      description |-> <<"Sea salt.">>, price |-> <<50>>,
      discountPercentage |-> <<100>>, rating |-> <<29>>, stock |-> <<40>>,
      brand |-> None, category |-> None, thumbnail |-> None]
    >>

\* a product the service cannot build (title null)
BrokenProduct ==
    [id |-> <<99>>, title |-> None, description |-> None, price |-> <<100>>,
     discountPercentage |-> <<>>, rating |-> <<>>, stock |-> <<>>,
     brand |-> None, category |-> None, thumbnail |-> None]

MaxCatalogLen == 9

Reverse(xs) == [i \in 1..Len(xs) |-> xs[Len(xs) + 1 - i]]

\* the responses a fetch can get: a request error, a bad status, or a body
\* with the first n products, in either order, or with an unusable product
FetchResponses ==
    {[kind |-> "request_error", products |-> <<>>],
     [kind |-> "bad_status", products |-> <<>>],
     [kind |-> "json", products |-> <<MasterCatalog[1], BrokenProduct>>]}
    \cup {[kind |-> "json", products |-> SubSeq(MasterCatalog, 1, n)] :
            n \in 0..MaxCatalogLen}
    \cup {[kind |-> "json", products |-> Reverse(SubSeq(MasterCatalog, 1, n))] :
            n \in 2..MaxCatalogLen}

\* the phrases messages are made of
Phrases ==
    <<<<" ">>,
      <<"h", "i">>,
      <<"b", "y", "e">>,
      <<"t", "o", "y">>,
      <<"c", "a", "t">>,
      <<"K", "i", "w", "i">>,
      <<"K", "i", "w", "i", "s">>,
      <<"g", "l", "a", "s", "s">>,
      <<"p", "r", "i", "c", "e">>,
      <<"s", "t", "o", "c", "k">>,
      <<"s", "t", "a", "r", "s">>,
      <<"c", "o", "s", "t", " ", "i", "n", " ", "s", "t", "o", "c", "k">>,
      <<"r", "a", "t", "i", "n", "g", "s", " ", "a", "b", "o", "v", "e", " ", "4">>,
      <<"r", "a", "t", "i", "n", "g", " ", "o", "v", "e", "r", " ", "4", ".", "8">>,
      <<"u", "n", "d", "e", "r", " ", "3">>,
      <<"c", "a", "t", "e", "g", "o", "r", "i", "e", "s">>,
      <<"g", "r", "o", "c", "e", "r", "i", "e", "s">>,
      <<EAcute, "?">>>>

MaxPhrases == 2

\* the messages: at most MaxPhrases phrases, in the order of Phrases,
\* joined by a space
RECURSIVE MessagesFrom(_, _)
MessagesFrom(i, n) ==
    IF n = 0 \/ i > Len(Phrases) THEN {<<>>}
    ELSE {<<>>}
         \cup UNION {{<<Phrases[j]>> \o rest : rest \in MessagesFrom(j + 1, n - 1)} :
                        j \in i..Len(Phrases)}

Messages == {JoinSpace(ps) : ps \in MessagesFrom(1, MaxPhrases)}

\* the texts the language model may answer with
AiContents ==
    {<<>>,
     <<" ">>,
     <<" ", "Sure! Here is what I found.", " ">>,
     SentinelPrefix \o <<" yesterday, but today I can help.">>}

\* before the first attempt of a call
NoOutcome == [kind |-> "none", body |-> [shape |-> "none"]]

\* the outcomes of one HTTP attempt
HttpOutcomes ==
    {[kind |-> "request_error", body |-> [shape |-> "none"]],
     [kind |-> "bad_status", body |-> [shape |-> "none"]],
     [kind |-> "bad_json", body |-> [shape |-> "none"]]}
    \cup {[kind |-> "json", body |-> [shape |-> sh]] :
            sh \in {"no_choices", "empty_choices", "no_message", "no_content",
                    "null_content"}}
    \cup {[kind |-> "json", body |-> [shape |-> "content", content |-> c]] :
            c \in AiContents}


\* ---- the words _normalize_word is studied on ----
MaxWordLen == 5

WordChars == {"c", "e", "h", "i", "o", "s", "x", "S", "-"}

RECURSIVE WordsOfLen(_)
WordsOfLen(n) ==
    IF n = 0 THEN {<<>>}
    ELSE {Append(w, c) : w \in WordsOfLen(n - 1), c \in WordChars}

WordsUpTo(max) == UNION {WordsOfLen(n) : n \in 1..max}

\* the prices compute_actual_price is studied on (cents)
MaxPriceCents == 120

\* the handlers (GET /api/products, POST /api/chat) that can be awaiting
\* fetch_products at the same time
MaxCallers == 2

Callers == 1..MaxCallers

Discounts == {<<>>} \cup {<<d>> : d \in 0..100}

(***************************************************************************)
(* State                                                                   *)
(***************************************************************************)
\* no request in progress
RequestIdle ==
    /\ pc = "idle"
    /\ message = None
    /\ products = <<>>
    /\ name_matches = <<>>
    /\ answered = <<>>
    /\ prompt = None
    /\ attempt = 0
    /\ outcome = NoOutcome
    /\ ai_resp = None
    /\ reply = None
    /\ filtered = <<>>
    /\ listed = <<>>
    /\ branch = "none"
    /\ fetch_calls = 0
    /\ groq_calls = 0

NormalizeIdle == nw_in = <<>> /\ nw_once = None /\ nw_twice = None

PriceIdle == ap_in = <<0, <<>>>> /\ ap_out = <<>>

\* a handler that is not inside fetch_products
NoCall == [pc |-> "idle", via |-> "none", result |-> <<>>]

\* no handler is inside fetch_products
FetchIdle == calls = [c \in Callers |-> NoCall]

\* the service after start-up: _products_cache = None, no request
Init ==
    /\ RequestIdle
    /\ products_cache = <<>>
    /\ NormalizeIdle
    /\ PriceIdle
    /\ FetchIdle

(***************************************************************************)
(* generate_chat_response                                                  *)
(***************************************************************************)
\* a return of generate_chat_response before the catalog is answered from
ReturnEarly(text, label) ==
    /\ pc' = "done"
    /\ reply' = text
    /\ branch' = label
    /\ UNCHANGED <<products, name_matches, answered, prompt, attempt, outcome,
                   ai_resp, filtered, listed, groq_calls, products_cache>>

\* lines 66-77: the call, up to the first return or to fetch_products()
Receive(m) ==
    /\ pc = "idle"
    /\ message' = m
    /\ IF Strip(m) = <<>>
            THEN ReturnEarly(EmptyMessageReply, "empty") /\ UNCHANGED fetch_calls
       ELSE IF _is_greeting(Strip(m))
            THEN ReturnEarly(GreetingReply, "greeting") /\ UNCHANGED fetch_calls
       ELSE IF _is_farewell(Strip(m))
            THEN ReturnEarly(FarewellReply, "farewell") /\ UNCHANGED fetch_calls
       ELSE /\ pc' = "fetch"
            /\ fetch_calls' = fetch_calls + 1
            /\ UNCHANGED <<products, name_matches, answered, prompt, attempt,
                           outcome, ai_resp, reply, filtered, listed, branch,
                           groq_calls, products_cache>>
    /\ UNCHANGED nwVars
    /\ UNCHANGED apVars
    /\ UNCHANGED fpVars

\* lines 78-219 once fetch_products() has returned prods
\* the return, or the call of query_groq, that Answer arrived at
Arrive(a) ==
    /\ pc' = IF a.at = "return" THEN "done" ELSE a.at
    /\ reply' = a.reply
    /\ branch' = a.branch
    /\ name_matches' = a.name_matches
    /\ answered' = a.answered
    /\ prompt' = a.prompt
    /\ filtered' = a.filtered
    /\ listed' = a.listed
    /\ groq_calls' = IF a.at = "return" THEN groq_calls ELSE groq_calls + 1

Continue(prods) ==
    /\ products' = prods
    /\ IF prods = <<>>
       THEN /\ pc' = "done"
            /\ reply' = LoadFailedReply
            /\ branch' = "load_failed"
            /\ UNCHANGED <<name_matches, answered, prompt, filtered, listed,
                           groq_calls>>
       ELSE Arrive(Answer(message, prods))
    /\ UNCHANGED <<message, attempt, outcome, ai_resp, fetch_calls>>

\* fetch_products, lines 19-20: the cache holds a list
FetchCached ==
    /\ pc = "fetch"
    /\ products_cache # <<>>
    /\ Continue(products_cache[1])
    /\ UNCHANGED products_cache
    /\ UNCHANGED nwVars
    /\ UNCHANGED apVars
    /\ UNCHANGED fpVars

\* fetch_products, lines 22-24: the cache is None, the request is sent
FetchSend ==
    /\ pc = "fetch"
    /\ products_cache = <<>>
    /\ pc' = "net"
    /\ UNCHANGED <<message, products, name_matches, answered, prompt, attempt,
                   outcome, ai_resp, reply, filtered, listed, branch,
                   fetch_calls, groq_calls, products_cache>>
    /\ UNCHANGED nwVars
    /\ UNCHANGED apVars
    /\ UNCHANGED fpVars

\* fetch_products, lines 24-46: the response arrives
Fetched(got) ==
    /\ products_cache' = IF got.ok THEN <<got.value>> ELSE products_cache
    /\ Continue(got.value)

FetchResponse(resp) ==
    /\ pc = "net"
    /\ Fetched(FetchOutcome(resp))
    /\ UNCHANGED nwVars
    /\ UNCHANGED apVars
    /\ UNCHANGED fpVars

\* the text of query_groq, returned whatever it is
AfterGroqAsIs(at, text, matches) == text

\* lines 153-158 and 219: what generate_chat_response returns for the
\* text query_groq gave, at the call site `at`
AfterGroq(at, text, matches) ==
    IF at = "groq_product" /\ StartsWith(text, SentinelPrefix)
    THEN LocalSummary(Facts(matches[1]))
    ELSE text

\* query_groq, lines 27-41: one pass of the retry loop, and the return of
\* generate_chat_response when query_groq returns
\* query_groq returns text, and generate_chat_response returns
GroqReturns(text) ==
    /\ ai_resp' = text
    /\ reply' = AfterGroq(pc, text, answered)
    /\ pc' = "done"

GroqAttempt(o) ==
    /\ pc \in {"groq_product", "groq_generic"}
    /\ attempt < max_retries
    /\ attempt' = attempt + 1
    /\ outcome' = o
    /\ IF ~AttemptFails(o)
       THEN GroqReturns(ExtractContent(o.body).text)
       ELSE IF attempt + 1 < max_retries
            THEN UNCHANGED <<ai_resp, reply, pc>>
            ELSE GroqReturns(Sentinel)
    /\ UNCHANGED <<message, products, name_matches, answered, prompt, filtered,
                   listed, branch, fetch_calls, groq_calls, products_cache>>
    /\ UNCHANGED nwVars
    /\ UNCHANGED apVars
    /\ UNCHANGED fpVars

\* the reply is handed to the caller; the locals are gone
Deliver ==
    /\ pc = "done"
    /\ pc' = "idle"
    /\ message' = None
    /\ products' = <<>>
    /\ name_matches' = <<>>
    /\ answered' = <<>>
    /\ prompt' = None
    /\ attempt' = 0
    /\ outcome' = NoOutcome
    /\ ai_resp' = None
    /\ reply' = None
    /\ filtered' = <<>>
    /\ listed' = <<>>
    /\ branch' = "none"
    /\ fetch_calls' = 0
    /\ groq_calls' = 0
    /\ UNCHANGED products_cache
    /\ UNCHANGED nwVars
    /\ UNCHANGED apVars
    /\ UNCHANGED fpVars

Next ==
    \/ \E m \in Messages : Receive(m)
    \/ FetchCached
    \/ FetchSend
    \/ \E resp \in FetchResponses : FetchResponse(resp)
    \/ \E o \in HttpOutcomes : GroqAttempt(o)
    \/ Deliver

Spec == Init /\ [][Next]_vars

(***************************************************************************)
(* _normalize_word on its own                                              *)
(***************************************************************************)
InitNormalize ==
    /\ RequestIdle
    /\ products_cache = <<>>
    /\ nw_in \in WordsUpTo(MaxWordLen)
    /\ nw_once = None
    /\ nw_twice = None
    /\ PriceIdle
    /\ FetchIdle

NormalizeOnce ==
    /\ nw_once = None
    /\ nw_once' = _normalize_word(nw_in)
    /\ UNCHANGED <<nw_in, nw_twice>>
    /\ UNCHANGED reqVars
    /\ UNCHANGED apVars
    /\ UNCHANGED fpVars

NormalizeTwice ==
    /\ nw_once # None
    /\ nw_twice = None
    /\ nw_twice' = _normalize_word(nw_once)
    /\ UNCHANGED <<nw_in, nw_once>>
    /\ UNCHANGED reqVars
    /\ UNCHANGED apVars
    /\ UNCHANGED fpVars

NextNormalize == NormalizeOnce \/ NormalizeTwice

SpecNormalize == InitNormalize /\ [][NextNormalize]_vars

(***************************************************************************)
(* compute_actual_price on its own                                         *)
(***************************************************************************)
InitPrice ==
    /\ RequestIdle
    /\ products_cache = <<>>
    /\ NormalizeIdle
    /\ ap_in \in (0..MaxPriceCents) \X Discounts
    /\ ap_out = <<>>
    /\ FetchIdle

ComputeActualPrice ==
    /\ ap_out = <<>>
    /\ \E v \in ActualPrices(ap_in[1], ap_in[2]) : ap_out' = <<v>>
    /\ UNCHANGED ap_in
    /\ UNCHANGED reqVars
    /\ UNCHANGED nwVars
    /\ UNCHANGED fpVars

NextPrice == ComputeActualPrice

SpecPrice == InitPrice /\ [][NextPrice]_vars

(***************************************************************************)
(* fetch_products called by handlers running at the same time.  The        *)
(* handlers are coroutines of one event loop: a call runs without          *)
(* interruption from one await to the next, so a call is two steps, the    *)
(* one up to `session.get` (line 24) and the one from the response on.     *)
(***************************************************************************)
InitFetch ==
    /\ RequestIdle
    /\ products_cache = <<>>
    /\ NormalizeIdle
    /\ PriceIdle
    /\ FetchIdle

\* the rest of the state is not touched by fetch_products
FetchUnchanged ==
    /\ UNCHANGED <<pc, message, products, name_matches, answered, prompt,
                   attempt, outcome, ai_resp, reply, filtered, listed, branch,
                   fetch_calls, groq_calls>>
    /\ UNCHANGED nwVars
    /\ UNCHANGED apVars

\* lines 18-24: the call, up to `return _products_cache` (line 20) or to the
\* request that is awaited (line 24)
CallFetch(c) ==
    /\ calls[c].pc = "idle"
    /\ calls' = [calls EXCEPT ![c] =
                    IF products_cache # <<>>
                    THEN [pc |-> "returned", via |-> "cached", result |-> products_cache]
                    ELSE [pc |-> "net", via |-> "none", result |-> <<>>]]
    /\ UNCHANGED products_cache
    /\ FetchUnchanged

\* lines 24-46: the response arrives; line 28 assigns the cache and line 42
\* returns it, or line 46 returns [] from the except branch
Returned(got) ==
    [pc |-> "returned",
     via |-> IF got.ok THEN "fetched" ELSE "failed",
     result |-> <<got.value>>]

Assigned(c, got) ==
    /\ products_cache' = IF got.ok THEN <<got.value>> ELSE products_cache
    /\ calls' = [calls EXCEPT ![c] = Returned(got)]

FetchArrives(c, resp) ==
    /\ calls[c].pc = "net"
    /\ Assigned(c, FetchOutcome(resp))
    /\ FetchUnchanged

\* the handler is done with the list it got
HandlerEnds(c) ==
    /\ calls[c].pc = "returned"
    /\ calls' = [calls EXCEPT ![c] = NoCall]
    /\ UNCHANGED products_cache
    /\ FetchUnchanged

NextFetch ==
    \/ \E c \in Callers : CallFetch(c)
    \/ \E c \in Callers : \E resp \in FetchResponses : FetchArrives(c, resp)
    \/ \E c \in Callers : HandlerEnds(c)

SpecFetch == InitFetch /\ [][NextFetch]_vars

(***************************************************************************)
(* Properties of generate_chat_response                                    *)
(***************************************************************************)
\* a request is between its call and its return
Running == pc \notin {"idle", "done"}

\* a running request has a step to take: fetch_products goes on with or
\* without a cache, the response of a sent request arrives, and the retry
\* loop of query_groq has an attempt left
CanStep ==
    \/ pc = "fetch"
    \/ pc = "net" /\ FetchResponses # {}
    \/ pc \in {"groq_product", "groq_generic"} /\ attempt < max_retries
                                               /\ HttpOutcomes # {}

\* C1: generate_chat_response returns a non-empty string and never raises:
\* for every message, every catalog outcome and every fallback outcome, a
\* returned reply is a non-empty text, and a request that has not returned
\* yet can always go on (no path stops anywhere but at a return).
C1_AlwaysReplies ==
    /\ pc = "done" => reply # None /\ Len(reply) > 0
    /\ pc # "done" => reply = None
    /\ Running => CanStep

\* C1 happens: replies after a failed fetch, after a fallback failure, after
\* an empty fallback text, and a list reply over products without optional
\* fields, for a non-ASCII message
C1_Witness ==
    /\ pc = "done"
    /\ branch = "generic"
    /\ ai_resp = EmptyAiReply
    /\ reply = EmptyAiReply
    /\ Contains(message, <<EAcute>>)
    /\ \E i \in 1..Len(products) : products[i].category = None

\* the canned reply of a message that gets one, None for the others
CannedReply(msg) ==
    IF \A i \in 1..Len(msg) : IsSpace(msg[i]) THEN EmptyMessageReply
    ELSE IF \E k \in GREETINGS : Contains(Lower(msg), k) THEN GreetingReply
    ELSE IF \E k \in FAREWELL : Contains(Lower(msg), k) THEN FarewellReply
    ELSE None

\* the request is over, with this reply and no collaborator called
AnsweredAlone(canned) ==
    canned # None =>
        /\ pc = "done"
        /\ reply = canned
        /\ fetch_calls = 0
        /\ groq_calls = 0
        /\ products = <<>>
        /\ ai_resp = None

\* C2: an empty or whitespace-only message, or one containing a greeting or
\* farewell keyword as a substring, is answered with its canned reply
\* (greeting before farewell) without any catalog fetch or fallback call on
\* that request, whatever the state of the catalog.
C2_CannedBeforeCollaborators ==
    pc # "idle" => AnsweredAlone(CannedReply(message))

\* C2 happens: a message with a greeting and a farewell keyword gets the
\* greeting while a catalog is cached
C2_Witness ==
    /\ pc = "done"
    /\ Contains(message, <<"h", "i">>)
    /\ Contains(message, <<"b", "y", "e">>)
    /\ reply = GreetingReply
    /\ products_cache # <<>>
    /\ fetch_calls = 0

\* C3: when a product was resolved and the fallback returns its sentinel,
\* the reply is not the sentinel but a local summary containing the
\* product's name and price; when no product was resolved the fallback's
\* text, sentinel included, is the reply.
C3_SentinelReplaced ==
    (pc = "done" /\ groq_calls > 0) =>
        IF answered # <<>>
        THEN ai_resp = Sentinel =>
                /\ reply # Sentinel
                /\ Contains(reply, answered[1].title)
                /\ Contains(reply, Fmt2fCents(answered[1].price))
        ELSE reply = ai_resp

\* C3 happens: a resolved product, every attempt failed, a summary returned
C3_Witness ==
    /\ pc = "done"
    /\ answered # <<>>
    /\ ai_resp = Sentinel
    /\ attempt = max_retries
    /\ reply # Sentinel
    /\ Contains(reply, answered[1].title)

(***************************************************************************)
(* Properties of _normalize_word                                           *)
(***************************************************************************)
\* C4: _normalize_word is idempotent: normalizing a normalized word gives
\* the same word, for every word of letters, digits, hyphens and
\* apostrophes.
C4_NormalizeIdempotent == nw_twice # None => nw_twice = nw_once

(***************************************************************************)
(* Properties of compute_actual_price                                      *)
(***************************************************************************)
\* C8: for a price p >= 0 and a discount d of 0 to 100 percent, or absent,
\* compute_actual_price returns a number (it never raises) with
\* 0 <= result <= p, and with d = 0 or d absent it returns p itself
\* (prices in cents, so rounded to 2 decimals).
C8_ActualPriceBounded ==
    ap_out # <<>> =>
        /\ ap_out[1] \in 0..ap_in[1]
        /\ ap_in[2] \in {<<>>, <<0>>} => ap_out[1] = ap_in[1]
        /\ ap_in[2] = <<100>> => ap_out[1] = 0

\* C8 happens: a discounted price that falls between two cents is rounded
C8_Witness ==
    /\ ap_in = <<99, <<50>>>>
    /\ ap_out = <<50>>

(***************************************************************************)
(* Properties of product resolution                                        *)
(***************************************************************************)
\* the request has got past product identification (line 104)
Resolved == pc \in {"groq_product", "groq_generic", "done"} /\ products # <<>>

\* the words of a message and of a title, lowercased
MessageWords(msg) == SetOf(FindAllWords(Lower(msg), 1))

TitleWords(p) == SetOf(Split(Lower(p.title)))

\* the message has a word of the title, or that word with an s appended
Mentions(msg, p) ==
    \E w \in TitleWords(p) :
        w \in MessageWords(msg) \/ Append(w, "s") \in MessageWords(msg)

\* C5: for a non-empty catalog, when a message without a "rating above N"
\* phrase (and without greeting or farewell keyword) contains as a whole
\* word a word of some product's title, or that word with a plural s, in
\* any letter case, and no other product's title shares a word with the
\* message, the resolver returns that product.
C5_ResolvesCaseAndPlural ==
    Resolved =>
        \A i \in 1..Len(products) :
            ( /\ ~RatingGuard(message)
              /\ Mentions(message, products[i])
              /\ \A j \in 1..Len(products) :
                    j # i => ~Mentions(message, products[j]) )
            => name_matches # <<>> /\ name_matches[1] = products[i]

\* the first product, in catalog order, of those at the indexes in found
FirstAt(prods, found) ==
    IF found = {} THEN <<>>
    ELSE <<prods[CHOOSE i \in found : \A j \in found : i <= j]>>

\* the indexes of the highest of the scores, if it is above 0
Highest(scores) ==
    {i \in DOMAIN scores :
        scores[i] > 0 /\ \A j \in DOMAIN scores : scores[j] <= scores[i]}

ScoresOf(prods, tokens) == [i \in 1..Len(prods) |-> Score(prods[i], tokens)]

TopScored(prods, tokens) == Highest(ScoresOf(prods, tokens))

\* the product the three tiers pick, from the indexes of the products whose
\* title is the message, and of those whose normalized title is within the
\* normalized message
Pick(prods, same, within, norm_txt) ==
    IF same # {} THEN FirstAt(prods, same)
    ELSE IF within # {} THEN FirstAt(prods, within)
    ELSE FirstAt(prods, TopScored(prods, Tokens(norm_txt)))

Expected(prods, lower_txt, norm_txt) ==
    Pick(prods,
         {i \in 1..Len(prods) : Lower(prods[i].title) = lower_txt},
         {i \in 1..Len(prods) :
            Contains(norm_txt, _normalize_word(Lower(prods[i].title)))},
         norm_txt)

ExpectedFor(prods, lower_txt) == Expected(prods, lower_txt, NormTxt(lower_txt))

\* name_matches starts with the expected product, or both are empty
SameFirst(matches, expected) ==
    IF expected = <<>> THEN matches = <<>>
    ELSE matches # <<>> /\ matches[1] = expected[1]

\* C6: the resolver returns the first product in catalog order whose
\* lowercased title equals the whole lowercased message; otherwise the
\* first in catalog order whose normalized title is a substring of the
\* normalized message; otherwise the earliest product in catalog order
\* among those with the highest token-overlap score; and none when every
\* score is 0.  (name_matches is assigned by the step that ends the fetch,
\* and by no later step of the request.)
C6_ThreeTiers ==
    [][(pc \in {"fetch", "net"} /\ products' # <<>>) =>
            SameFirst(name_matches', ExpectedFor(products', Lower(Strip(message))))]_vars

\* the token tier was reached, and n products tie for the highest score
TieOf(prods, norm_txt, n) ==
    /\ \A i \in 1..Len(prods) :
            ~Contains(norm_txt, _normalize_word(Lower(prods[i].title)))
    /\ Cardinality(TopScored(prods, Tokens(norm_txt))) = n

\* C6 happens: no title equals the message or is within it, two products
\* tie for the highest score, and the earlier one is returned although a
\* product without score precedes both
C6_Witness ==
    /\ Resolved
    /\ TieOf(products, NormTxt(Lower(Strip(message))), 2)
    /\ Len(products) > 2
    /\ name_matches = <<products[2]>>

(***************************************************************************)
(* Properties of the filter reply                                          *)
(***************************************************************************)
\* p satisfies every constraint that is there
Meets(p, low, high, min_rating) ==
    /\ low # NoNumber => p.price * low[1].den >= low[1].num * 100
    /\ high # NoNumber => p.price * high[1].den <= high[1].num * 100
    /\ min_rating # NoNumber =>
            OrZero(<<p.rating>>) * min_rating[1].den >= min_rating[1].num * 10

\* the products satisfying the constraints, in catalog order
Satisfying(prods, range, min_rating) ==
    SelectSeq(prods, LAMBDA p : Meets(p, range.low, range.high, min_rating))

\* the first n elements at most
FirstOf(items, n) == [i \in 1..(IF Len(items) < n THEN Len(items) ELSE n) |-> items[i]]

FilterReplyOf(expected) ==
    /\ filtered = expected
    /\ branch = "filter" =>
          /\ expected # <<>>
          /\ listed = FirstOf(expected, 6)
          /\ EndsWith(reply, Lines(FirstOf(expected, 6)))
          /\ \A i \in 1..Len(listed) : Contains(reply, listed[i].title)
    /\ branch = "generic" => expected = <<>> /\ listed = <<>>

\* C7: in a price/rating filter reply the listed products are the first at
\* most 6, in catalog order, of the catalog products that satisfy every
\* extracted constraint (price >= low, price <= high, rating >= threshold),
\* and filter_products returns all the products satisfying them, in catalog
\* order, without a cap.
C7_FilterReply ==
    (pc \in {"groq_generic", "done"} /\ branch \in {"filter", "generic"}) =>
        FilterReplyOf(Satisfying(products, _extract_price_range(Strip(message)),
                                 RatingThreshold(Strip(message))))

\* C7 happens: more than 6 products, not all, satisfy a price bound, one of
\* them at the bound itself
C7_Witness ==
    /\ pc = "done"
    /\ branch = "filter"
    /\ Len(filtered) > 6
    /\ Len(filtered) < Len(products)
    /\ Len(listed) = 6
    /\ \E i \in 1..Len(listed) : listed[i].price = 300
    /\ _extract_price_range(Strip(message)).high # NoNumber

(***************************************************************************)
(* Properties of query_groq                                                *)
(***************************************************************************)
\* the attempt raised: a request error, a bad status, a body that is not
\* JSON or that has no first choice or no message content
Failed(o) ==
    \/ o.kind \in {"request_error", "bad_status", "bad_json"}
    \/ o.body.shape \in {"empty_choices", "null_content"}

Calling == pc \in {"groq_product", "groq_generic"}

Wants(msg, keywords) == \E k \in keywords : Contains(Lower(Strip(msg)), k)

\* how many of the price, stock and rating intents the message has
Intents(msg) ==
    Cardinality({ks \in {INQUIRY_PRICE, INQUIRY_STOCK, INQUIRY_RATING} :
                    Wants(msg, ks)})

TemplateFor(msg, f) ==
    IF Wants(msg, INQUIRY_PRICE) THEN PriceTemplate(f)
    ELSE IF Wants(msg, INQUIRY_STOCK) THEN StockTemplate(f)
    ELSE RatingTemplate(f)

\* the answer about prod to a message with n of the three intents
ProductAnswerOf(n, prod) ==
    /\ prod = name_matches[1]
    /\ IF n = 1
       THEN /\ groq_calls = 0
            /\ pc = "done"
            /\ reply = TemplateFor(message, Facts(prod))
       ELSE /\ groq_calls = 1
            /\ Contains(prompt, prod.title)
            /\ Contains(prompt, Fmt2fCents(prod.price))
            /\ Contains(prompt, prod.description)
            /\ Contains(prompt, Strip(message))

\* C10: when a product is resolved and the rating-filter guard does not
\* apply, then with exactly one of the price, stock and rating intents the
\* reply is that intent's template of the product's facts and no fallback
\* call is made; with none or several intents exactly one fallback call is
\* made, with a prompt carrying the product's facts.
C10_TemplateOrFallback ==
    Resolved =>
        IF answered = <<>>
        THEN name_matches = <<>> \/ RatingGuard(message)
        ELSE /\ name_matches # <<>>
             /\ ~RatingGuard(message)
             /\ ProductAnswerOf(Intents(message), answered[1])

\* C10 happens: a product asked about with two intents goes to the fallback
C10_Witness ==
    /\ pc = "done"
    /\ answered # <<>>
    /\ Wants(message, INQUIRY_PRICE)
    /\ Wants(message, INQUIRY_STOCK)
    /\ groq_calls = 1
    /\ branch = "product"

(***************************************************************************)
(* Properties of the ratings-filter guard                                  *)
(***************************************************************************)
\* the texts only a single-product answer about the facts f has
ProductTexts(f) ==
    {PriceTemplate(f), StockTemplate(f), RatingTemplate(f), LocalSummary(f)}

\* the request was answered, or is being answered, about one product
SingleProduct ==
    \/ answered # <<>>
    \/ branch \in {"price", "stock", "rating", "product"}
    \/ pc = "groq_product"
    \/ prompt # None /\ prompt # GenericPrompt(message)
    \/ name_matches # <<>> /\ reply \in ProductTexts(Facts(name_matches[1]))

\* C11: a message matching "rating(s) above/over/greater than <digit>"
\* never gets a single-product answer (no price, stock or rating template,
\* no product-facts prompt, no local summary), also when a title matches
\* the message; the request goes on with the category and filter branches.
C11_GuardSuppressesProduct ==
    Resolved =>
        IF SingleProduct
        THEN ~RatingGuard(Strip(message))
        ELSE branch \in {"categories", "category_empty", "category",
                         "filter", "generic"}

\* C11 happens: a title is within a message with the rating pattern, and
\* the reply is a filtered list
C11_Witness ==
    /\ pc = "done"
    /\ RatingGuard(Strip(message))
    /\ name_matches # <<>>
    /\ Contains(Lower(message), Lower(name_matches[1].title))
    /\ answered = <<>>
    /\ branch = "filter"

(***************************************************************************)
(* Properties of the generic fallback                                      *)
(***************************************************************************)
\* the message has no price bound and no rating threshold
Unconstrained(range, min_rating) ==
    range.low = NoNumber /\ range.high = NoNumber /\ min_rating = NoNumber

\* the message asks for nothing the catalog branches answer: no categories
\* question, no category of the catalog in it, no bound, no threshold
NothingAsked(txt, prods) ==
    /\ ~AsksCategories(Lower(txt))
    /\ Mentioned(Lower(txt), CategoryNames(prods)) = <<>>
    /\ Unconstrained(_extract_price_range(txt), RatingThreshold(txt))

\* C12: with a non-empty catalog, a message without greeting or farewell
\* keyword that resolves to no product, is no categories question, names no
\* catalog category and has no price bound and no rating threshold goes to
\* the generative fallback: one call, with the generic prompt, whose text is
\* the reply.
C12_GenericFallback ==
    (Resolved /\ name_matches = <<>> /\ NothingAsked(Strip(message), products)) =>
        /\ branch = "generic"
        /\ groq_calls = 1
        /\ prompt = GenericPrompt(message)
        /\ pc = "done" => reply = ai_resp

(***************************************************************************)
(* Properties of a rating-only filter                                      *)
(***************************************************************************)
\* the positions where the above/over word of a rating phrase starts
RatingWordStarts(s) ==
    {AfterSpaces0(s, AfterOpt(s, AfterLit(s, h, <<"r", "a", "t", "i", "n", "g">>), <<"s">>)) :
        h \in RatingHits(s)}

\* the message has a rating threshold and no price wording: no "between",
\* no "under" wording, and no "over" wording but that of a rating phrase
RatingOnly(s) ==
    /\ RatingHits(s) # {}
    /\ \A i \in 1..Len(s) :
          /\ ~BetweenAt(s, i).ok
          /\ ~BoundAt(s, i, UnderWords).ok
          /\ BoundAt(s, i, OverWords).ok => i \in RatingWordStarts(s)

NoRange == [low |-> NoNumber, high |-> NoNumber]

\* C13: when the filter step answers a message whose only constraint is a
\* rating threshold, the price-range extractor gives no lower and no upper
\* bound, and the products selected are the catalog products with rating >= N
\* whatever their price: the reply lists the first at most 6 of them in
\* catalog order.
C13_RatingAlone ==
    (/\ pc \in {"groq_generic", "done"}
     /\ branch \in {"filter", "generic"}
     /\ RatingOnly(Lower(Strip(message)))) =>
        /\ _extract_price_range(Strip(message)) = NoRange
        /\ FilterReplyOf(Satisfying(products, NoRange, RatingThreshold(Strip(message))))

(***************************************************************************)
(* Properties of the catalog cache                                         *)
(***************************************************************************)
\* c enters fetch_products in this step
Enters(c) == calls[c].pc = "idle" /\ calls'[c].pc # "idle"

\* c's awaited request ends in this step
Lands(c) == calls[c].pc = "net" /\ calls'[c].pc = "returned"

\* C14: whatever the interleaving of the fetch_products calls of the
\* handlers, a cache that holds a catalog keeps it (it is not cleared and not
\* replaced by another catalog); a call entered while the cache holds a
\* catalog returns that catalog without a network request; and a fetch that
\* fails returns the empty list and leaves the cache as it was.
C14_CacheKept ==
    [][/\ products_cache # <<>> => products_cache' = products_cache
       /\ \A c \in Callers :
            /\ (Enters(c) /\ products_cache # <<>>) =>
                    calls'[c] = [pc |-> "returned", via |-> "cached",
                                 result |-> products_cache]
            /\ (Lands(c) /\ calls'[c].via = "failed") =>
                    /\ calls'[c].result = <<<<>>>>
                    /\ products_cache' = products_cache]_vars

====
